---- MODULE Spec2Model ----
(***************************************************************************)
(* Lilimod: numerical inversion of Laplace transforms.                     *)
(*                                                                         *)
(* The model covers the Stehfest inverter (maths/stehfest.py and its copy  *)
(* lilimaths/lilimaths/stehfest.py) and den Iseger's inverter              *)
(* (maths/iseger.py).  A run is one caller process that uses one of the    *)
(* two engines, as every caller in the repository does (stehfest_tests.py  *)
(* imports only Stehfest, iseger_tests.py only iseger.invert); the engines *)
(* have no state in common.  Three further callers have a specification  *)
(* of their own: one that also uses the coefficients property of           *)
(* lilimaths' Stehfest (SpecAccessor), one that inverts from two threads   *)
(* (SpecConcurrent), and one that calls erfc of maths/functions.py         *)
(* (SpecFunctions).  Further specifications cover inerfc of functions.py   *)
(* (SpecInerfc), RCCircuit of electro/rc_circuit.py (SpecCircuit), and the *)
(* Stehfest inversion of 1/p in exact arithmetic (SpecExact).              *)
(*                                                                         *)
(* Floating-point values are kept as exact expressions: a Stehfest         *)
(* coefficient is its sign and the list of the terms summed into it, the   *)
(* value returned by an inversion is the list of the products accumulated  *)
(* into it, and so on.  Two equal expressions denote the same float, since *)
(* the code evaluates them by the same operations in the same order.       *)
(***************************************************************************)
EXTENDS Integers, Sequences, FiniteSets, TLC

(***************************************************************************)
(* Bounds of the model.                                                    *)
(***************************************************************************)
MaxInst == 1            \* Stehfest objects the caller holds at a time
MaxOrder == 4           \* largest order of a caller that also inverts
MaxCount == 4           \* largest number_of_values besides the demo's
MaxX == 60              \* largest |x| of erfc(x), in tenths
MaxRC == 3              \* largest capacity and resistance of an RCCircuit
MaxP == 2               \* largest |numerator| of a Laplace parameter p
MaxN == 7               \* largest order n of inerfc(x, n)
MaxDepth == 10          \* the interpreter's recursion limit, scaled down

(***************************************************************************)
(* Program constants.                                                      *)
(***************************************************************************)
FAIRS_OPTIMUM_ORDER == 14
DemoCount == 20
MaxDemoOrder == 16
number_of_terms == 5
SmallLimit == 35        \* the 3.5 of erfc, in tenths

(***************************************************************************)
(* Inputs.                                                                 *)
(***************************************************************************)
Slots == 1 .. MaxInst
Orders == -2 .. MaxOrder
DemoOrders == {2, 4, 6, 8, 10, 12, FAIRS_OPTIMUM_ORDER, MaxDemoOrder}
Times == {-1, 0, 1}
Counts == 0 .. MaxCount
DeltaTs == {-1, 0, 1}
Abscissas == {-1, 0, 1}
Degrees == {16, 24, 32, 48}
\* An image is a caller-supplied callable; a "faulty" one may raise at any
\* abscissa it is evaluated at.
PureImages == {"exponent_image"}
Images == PureImages \cup {"faulty_image"}

VARIABLES
    program,    \* what the caller uses: "stehfest", "coefficients", "iseger",
                \* "concurrent", "functions", "inerfc", "circuit", "exact"
    pc,         \* position of the caller: "idle", inside an operation, "done"
    call,       \* the operation being run, or run last, and its arguments
    objs,       \* the Stehfest objects the caller holds, by slot
    kept,       \* a value an earlier Stehfest.invert of a pure image returned,
                \* kept by the caller
    self,       \* the Stehfest object under construction (locals of _initialize)
    st,         \* locals of Stehfest.invert
    is,         \* locals of iseger.invert
    evals,      \* image evaluations made by the current call
    raisedAt,   \* the evaluation of the current call at which the image raised, or 0
    outcome,    \* how the last operation ended
    stResult,   \* value returned by the last Stehfest.invert
    isResult,   \* value returned by the last iseger.invert
    tables,     \* the module-level coefficient lists of iseger.py, by degree
    fft,        \* the numpy.fft.ifft calls of the current iseger.invert
    threads,    \* the calls of a caller that inverts from several threads
    fn,         \* the call of a function of functions.py and its locals
    circuit,    \* the RCCircuit object of the caller and its last call
    exact       \* the Stehfest derivation and inversion of 1/p in exact arithmetic

vars == <<program, pc, call, objs, kept, self, st, is, evals, raisedAt, outcome,
          stResult, isResult, tables, fft, threads, fn, circuit, exact>>

(***************************************************************************)
(* Python's int(n / 2) for an integer n: true division, then truncation    *)
(* towards zero.                                                           *)
(***************************************************************************)
IntHalf(n) == IF n >= 0 THEN n \div 2 ELSE -((-n) \div 2)

\* [v] * n : a list of n copies of v, empty when n <= 0
Repeat(v, n) == [x \in 1 .. n |-> v]

\* the float 0.0 a coefficient starts from: the empty sum
ZeroCoefficient == [sign |-> 1, terms |-> <<>>]

NoCall == [op |-> "none", slot |-> 0, order |-> 0, image |-> "", t |-> 0,
           delta_t |-> 0, number_of_values |-> 0, critical_abscissa |-> 0,
           quadrature_degree |-> 0]
NoObject == [live |-> FALSE, order |-> 0, coefficients |-> <<>>]
NoSelf == [order |-> 0, N2 |-> 0, NV |-> 0, sign |-> 1, i |-> 0, coefficients |-> <<>>]
NoValue == [ln2t |-> 0, y |-> <<>>]
NoKept == [has |-> FALSE, order |-> 0, image |-> "", t |-> 0, value |-> NoValue]
NoStLocals == [i |-> 0, x |-> 0, y |-> <<>>]
NoIsLocals == [m |-> 0, number_of_values |-> 0, m2 |-> 0, k |-> 0, j |-> 0,
               sum |-> <<>>, image_values |-> <<>>]

\* the coefficient lists iseger.py defines at module level, as written there
Table(degree, length) == [n \in 1 .. length |-> <<degree, n - 1>>]
ISEGER_COEFFICIENTS_16 == Table(16, 8)
ISEGER_COEFFICIENTS_32 == Table(32, 16)
ISEGER_COEFFICIENTS_48 == Table(48, 24)
ModuleTables ==
    [d \in {16, 32, 48} |->
        CASE d = 16 -> ISEGER_COEFFICIENTS_16
          [] d = 32 -> ISEGER_COEFFICIENTS_32
          [] OTHER -> ISEGER_COEFFICIENTS_48]

NoOutcome == [kind |-> "none", error |-> ""]
Returned == [kind |-> "return", error |-> ""]
Raised(e) == [kind |-> "raise", error |-> e]

\* a thread of a caller that inverts from several threads: the call it
\* makes, the locals of the invert it runs and what the call gave
Threads == {"a", "b"}
NoThread == [pc |-> "idle", call |-> NoCall, st |-> NoStLocals, is |-> NoIsLocals,
             evals |-> 0, outcome |-> NoOutcome, stResult |-> NoValue,
             fft |-> <<>>, isResult |-> <<>>]
\* locals of erfc and _erfc_asymptotic; x is counted in tenths, sum is the
\* list of the terms added to the 1.0 it starts from, term n is the value of
\* the variable term after n - 1 updates
\* for inerfc: n is the order of the outermost call, stack the frames of the
\* inerfc calls under way (innermost last), returning tells that the
\* innermost call has just returned, bases are the orders at which a call
\* returned without recursion, divided the orders n divided by
NoFn == [pc |-> "idle", x |-> 0, reflected |-> FALSE, via |-> "none",
         m |-> 0, sum |-> <<>>, term |-> 0, iterations |-> 0,
         n |-> 0, stack |-> <<>>, returning |-> FALSE, bases |-> {},
         divided |-> {}, outcome |-> NoOutcome]

\* a rational number num / den, den > 0
Rat(num, den) == <<num, den>>
One == Rat(1, 1)
RatAdd(a, b) == Rat(a[1] * b[2] + b[1] * a[2], a[2] * b[2])
RatMul(a, b) == Rat(a[1] * b[1], a[2] * b[2])
\* a / b for b # 0
RatDiv(a, b) == IF b[1] > 0 THEN Rat(a[1] * b[2], a[2] * b[1])
                ELSE Rat(-(a[1] * b[2]), a[2] * (-b[1]))
RatEq(a, b) == a[1] * b[2] = b[1] * a[2]

NoCircuit == [live |-> FALSE, capacity |-> One, resistance |-> One, T |-> One,
              pc |-> "idle", p |-> One, value |-> One]
\* order and t of the run, the index reached, the coefficients derived (each
\* times (N2 - 1)!, an integer), and the positive and the negative part of y
NoExact == [pc |-> "idle", order |-> 0, t |-> 0, i |-> 0, V |-> <<>>,
            pos |-> <<>>, neg |-> <<>>]

\* the state of a process that has called nothing yet
Fresh ==
    /\ circuit = NoCircuit
    /\ exact = NoExact
    /\ tables = ModuleTables
    /\ fft = <<>>
    /\ threads = [th \in Threads |-> NoThread]
    /\ fn = NoFn
    /\ pc = "idle"
    /\ call = NoCall
    /\ kept = NoKept
    /\ self = NoSelf
    /\ st = NoStLocals
    /\ is = NoIsLocals
    /\ evals = 0
    /\ raisedAt = 0
    /\ outcome = NoOutcome
    /\ stResult = NoValue
    /\ isResult = <<>>

Init ==
    /\ program \in {"stehfest", "coefficients", "iseger"}
    /\ objs = [s \in Slots |-> NoObject]
    /\ Fresh

CanCall == pc = "idle"

\* entering an operation: nothing evaluated, nothing returned yet
Enter(c) ==
    /\ call' = c
    /\ evals' = 0
    /\ raisedAt' = 0
    /\ stResult' = NoValue
    /\ isResult' = <<>>
    /\ fft' = <<>>

\* the caller is done with the outcome of an operation and goes on; it may
\* keep the value an invert of a pure image returned (values.append(...))
Continue ==
    /\ pc = "done"
    /\ pc' = "idle"
    /\ Enter(NoCall)
    /\ outcome' = NoOutcome
    /\ \/ UNCHANGED kept
       \/ /\ call.op = "invert"
          /\ outcome = Returned
          /\ call.image \in PureImages
          /\ kept' = [has |-> TRUE, order |-> objs[call.slot].order,
                      image |-> call.image, t |-> call.t, value |-> stResult]
    /\ UNCHANGED <<program, circuit, exact, tables, threads, fn, objs, self, st, is>>

\* the values a call of the image can take: a pure image returns, a faulty
\* one returns or raises
ImageRaises(image) == IF image \in PureImages THEN {FALSE} ELSE {FALSE, TRUE}

(***************************************************************************)
(* Stehfest.  A coefficient is sign * (sum of terms); a term <<k, N2, i>>  *)
(* stands for                                                              *)
(*   k^N2 / k! * (2k)! / (2k-i-1)! / (N2-k)! / (k-1)! / (i+1-k)!           *)
(***************************************************************************)
\* math.factorial raises ValueError on a negative argument
FactorialArgs(k, N2, i) == {k, 2 * k, 2 * k - i - 1, N2 - k, k - 1, i + 1 - k}
FactorialOk(k, N2, i) == \A a \in FactorialArgs(k, N2, i) : a >= 0

KminCeiling(i) == (i + 3) \div 2
\* kmin = int((i + 2) / 2)
Kmin(i) == (i + 2) \div 2
Kmax(i, N2) == IF i + 1 > N2 THEN N2 ELSE i + 1

\* the terms the inner loop adds for index i: k = kmin .. kmax, in order
Terms(i, N2) ==
    [n \in 1 .. (Kmax(i, N2) - Kmin(i) + 1) |-> <<Kmin(i) + n - 1, N2, i>>]

AddTerms(c, ts) == [c EXCEPT !.terms = @ \o ts]
Unsigned(sign, c) == c
\* self._coefficients[i] = sign * self._coefficients[i]
Signed(sign, c) == [c EXCEPT !.sign = sign * @]

InitialSignFlipped(N2) == IF (N2 % 2) # 0 THEN 1 ELSE -1
\* sign before the loop: +1, or -1 when N2 is odd
InitialSign(N2) == IF (N2 % 2) # 0 THEN -1 ELSE 1

NewCoefficientsLong(NV) == Repeat(ZeroCoefficient, NV + 1)
NewCoefficientsReused(NV) ==
    LET old == {s \in Slots : objs[s].live /\ Len(objs[s].coefficients) = NV}
    IN IF old # {} THEN objs[CHOOSE s \in old : TRUE].coefficients
       ELSE Repeat(ZeroCoefficient, NV)
\* self._coefficients = [0.0] * NV
NewCoefficients(NV) == Repeat(ZeroCoefficient, NV)

OrdersOf(p) == IF p = "coefficients" THEN DemoOrders ELSE Orders

\* sf = Stehfest(order): __init__ stores the order and enters _initialize,
\* which sizes the coefficient list and sets the starting sign.
StehfestNew(s, order) ==
    /\ CanCall
    /\ program \in {"stehfest", "coefficients"}
    /\ order \in OrdersOf(program)
    /\ Enter([NoCall EXCEPT !.op = "new", !.slot = s, !.order = order])
    /\ LET N2 == IntHalf(order)
           NV == 2 * N2
       IN self' = [order |-> order, N2 |-> N2, NV |-> NV,
                   sign |-> InitialSign(N2), i |-> 0,
                   coefficients |-> NewCoefficients(NV)]
    /\ pc' = "st_initialize"
    /\ outcome' = NoOutcome
    /\ UNCHANGED <<program, circuit, exact, tables, threads, fn, objs, kept, st, is>>

\* one iteration of "for i in range(NV)" of _initialize
InitializeStep ==
    /\ pc = "st_initialize"
    /\ self.i < self.NV
    /\ LET i == self.i
           sign == -self.sign
           ks == Kmin(i) .. Kmax(i, self.N2)
       IN IF \A k \in ks : FactorialOk(k, self.N2, i)
          THEN /\ self' = [self EXCEPT
                     !.sign = sign,
                     !.i = i + 1,
                     !.coefficients[i + 1] = Signed(sign, AddTerms(@, Terms(i, self.N2)))]
               /\ UNCHANGED <<pc, outcome>>
          ELSE /\ outcome' = Raised("ValueError")
               /\ pc' = "done"
               /\ self' = NoSelf
    /\ UNCHANGED <<program, circuit, exact, tables, fft, threads, fn, call, objs, kept,
                   st, is, evals, raisedAt, stResult, isResult>>

\* _initialize and __init__ return; the caller binds the new object
InitializeReturn ==
    /\ pc = "st_initialize"
    /\ self.i >= self.NV
    /\ objs' = [objs EXCEPT ![call.slot] =
                   [live |-> TRUE, order |-> self.order,
                    coefficients |-> self.coefficients]]
    /\ outcome' = Returned
    /\ pc' = "done"
    /\ self' = NoSelf
    /\ UNCHANGED <<program, circuit, exact, tables, fft, threads, fn, call, kept, st, is,
                   evals, raisedAt, stResult, isResult>>

\* ln2t = math.log(2) / t raises ZeroDivisionError for t = 0
DividesByZero(t) == t = 0

\* sf.invert(image, t), up to the loop
StehfestInvert(s, image, t) ==
    /\ CanCall
    /\ program = "stehfest"
    /\ objs[s].live
    /\ Enter([NoCall EXCEPT !.op = "invert", !.slot = s, !.image = image, !.t = t])
    /\ IF DividesByZero(t)
       THEN /\ outcome' = Raised("ZeroDivisionError")
            /\ pc' = "done"
            /\ st' = NoStLocals
       ELSE /\ outcome' = NoOutcome
            /\ pc' = "st_invert"
            /\ st' = [i |-> 0, x |-> 0, y |-> <<>>]
    /\ UNCHANGED <<program, circuit, exact, tables, threads, fn, objs, kept, self, is>>

NextAbscissaFixed(x) == 1
\* x += ln2t, before the image is called; x counts in units of ln2t
NextAbscissa(x) == x + 1

\* the loop body with the image's error caught and the term skipped
InvertEvalCatching ==
    /\ pc = "st_invert"
    /\ st.i < Len(objs[call.slot].coefficients)
    /\ evals' = evals + 1
    /\ LET x == NextAbscissa(st.x)
       IN \E raises \in ImageRaises(call.image) :
            /\ raisedAt' = IF raises THEN evals' ELSE raisedAt
            /\ st' = [st EXCEPT
                   !.x = x,
                   !.i = @ + 1,
                   !.y = IF raises THEN @
                         ELSE Append(@, [coefficient |-> objs[call.slot].coefficients[st.i + 1],
                                         index |-> st.i,
                                         image |-> call.image,
                                         x |-> x])]
            /\ UNCHANGED <<pc, outcome>>
    /\ UNCHANGED <<program, circuit, exact, tables, fft, threads, fn, call, objs, kept,
                   self, is, stResult, isResult>>

\* one iteration of the loop of invert: x += ln2t; y += c[i] * image(x)
InvertEval ==
    /\ pc = "st_invert"
    /\ st.i < Len(objs[call.slot].coefficients)
    /\ evals' = evals + 1
    /\ LET x == NextAbscissa(st.x)
       IN \E raises \in ImageRaises(call.image) :
            IF raises
            THEN /\ raisedAt' = evals'
                 /\ outcome' = Raised("ImageError")
                 /\ pc' = "done"
                 /\ st' = NoStLocals
            ELSE /\ st' = [st EXCEPT
                       !.x = x,
                       !.i = @ + 1,
                       !.y = Append(@, [coefficient |-> objs[call.slot].coefficients[st.i + 1],
                                        index |-> st.i,
                                        image |-> call.image,
                                        x |-> x])]
                 /\ UNCHANGED <<pc, outcome, raisedAt>>
    /\ UNCHANGED <<program, circuit, exact, tables, fft, threads, fn, call, objs, kept,
                   self, is, stResult, isResult>>

\* return ln2t * y
InvertReturn ==
    /\ pc = "st_invert"
    /\ st.i >= Len(objs[call.slot].coefficients)
    /\ stResult' = [ln2t |-> call.t, y |-> st.y]
    /\ outcome' = Returned
    /\ pc' = "done"
    /\ st' = NoStLocals
    /\ UNCHANGED <<program, circuit, exact, tables, fft, threads, fn, call, objs, kept,
                   self, is, evals, raisedAt, isResult>>

\* _initialize run to its end: the coefficient list of Stehfest(order)
RECURSIVE InitializeLoop(_)
InitializeLoop(sf) ==
    IF sf.i >= sf.NV THEN sf.coefficients
    ELSE InitializeLoop([sf EXCEPT
             !.sign = -sf.sign,
             !.i = sf.i + 1,
             !.coefficients[sf.i + 1] = Signed(-sf.sign, AddTerms(@, Terms(sf.i, sf.N2)))])
Coefficients(order) ==
    LET N2 == IntHalf(order)
        NV == 2 * N2
    IN InitializeLoop([order |-> order, N2 |-> N2, NV |-> NV, sign |-> InitialSign(N2),
                       i |-> 0, coefficients |-> NewCoefficients(NV)])

\* the property coefficients of lilimaths' Stehfest returns self._coefficients,
\* the list itself; the caller assigns to an element of what it got:
\* V = sf.coefficients; V[i] = 0.0
CoefficientsAssign(s, i) ==
    /\ CanCall
    /\ program = "stehfest"
    /\ objs[s].live
    /\ i < Len(objs[s].coefficients)
    /\ objs[s].coefficients[i + 1] # ZeroCoefficient
    /\ objs' = [objs EXCEPT ![s].coefficients[i + 1] = ZeroCoefficient]
    /\ UNCHANGED <<program, circuit, exact, tables, fft, threads, fn, pc, call, kept,
                   self, st, is, evals, raisedAt, outcome, stResult, isResult>>

NextStehfest ==
    \/ \E s \in Slots, order \in Orders \cup DemoOrders : StehfestNew(s, order)
    \/ InitializeStep
    \/ InitializeReturn
    \/ \E s \in Slots, image \in Images, t \in Times : StehfestInvert(s, image, t)
    \/ InvertEval
    \/ InvertReturn

(***************************************************************************)
(* den Iseger.  The tables are lists of nodes; a node is kept as           *)
(* <<degree, index>>, its entry [0] being the weight the code multiplies   *)
(* by and its entry [1] the offset the code adds to the abscissa.          *)
(***************************************************************************)
SelectTableDefault(quadrature_degree) == tables[16]
\* coefficients = ISEGER_COEFFICIENTS_16; match quadrature_degree: ...
SelectTable(quadrature_degree) ==
    CASE quadrature_degree = 32 -> tables[32]
      [] quadrature_degree = 48 -> tables[48]
      [] OTHER -> tables[16]

DomainErrorStrict(delta_t, number_of_values) == delta_t < 0 \/ number_of_values < 2
\* if delta_t <= 0: raise ArithmeticError; if number_of_values < 2: raise ArithmeticError
DomainError(delta_t, number_of_values) == delta_t <= 0 \/ number_of_values < 2

SupportedRange(quadrature_degree) == quadrature_degree >= 16 /\ quadrature_degree <= 48
\* quadrature_degree in [16, 32, 48]
Supported(quadrature_degree) == quadrature_degree \in {16, 32, 48}

DoubleOnce(mm, number_of_values) == IF mm <= number_of_values THEN 2 * mm ELSE mm
\* while mm <= number_of_values: mm *= 2
RECURSIVE DoubleWhile(_, _)
DoubleWhile(mm, number_of_values) ==
    IF mm <= number_of_values THEN DoubleWhile(2 * mm, number_of_values) ELSE mm

RECURSIVE DoubleWhileBelow(_, _)
DoubleWhileBelow(mm, number_of_values) ==
    IF mm < number_of_values THEN DoubleWhileBelow(2 * mm, number_of_values) ELSE mm
NormalizeAtLeast(number_of_values) == DoubleWhileBelow(2, number_of_values)
\* mm = 2; the while loop; if mm < number_of_values: mm *= 2
Normalize(number_of_values) ==
    LET mm == DoubleWhile(2, number_of_values)
    IN IF mm < number_of_values THEN 2 * mm ELSE mm

\* the complex zero image_values is filled with
ZeroSample == [kind |-> "zero", k |-> 0, nodes |-> 0, with |-> 0]
\* 2.0 * sum / delta_t, sum being the real parts at the nodes 0 .. nodes-1 of k
Sample(k, sum) == [kind |-> "sample", k |-> k, nodes |-> Len(sum), with |-> 0]
MeanKeep(a, b) == a
\* (a + b) / 2.0 for two samples
Mean(a, b) == [kind |-> "mean", k |-> a.k, nodes |-> a.nodes, with |-> b.k]

\* z = b + 1j * (coefficients[j][1] + 2.0 * math.pi * k / m2), b = 44.0 / m2;
\* z = critical_abscissa + z / delta_t
PointUnshifted(critical_abscissa, delta_t, m2, node, k) ==
    [shift |-> 0, b |-> <<44, m2>>, offset |-> <<node, 1>>,
     angle |-> <<k, m2>>, over |-> delta_t]
Point(critical_abscissa, delta_t, m2, node, k) ==
    [shift |-> critical_abscissa, b |-> <<44, m2>>, offset |-> <<node, 1>>,
     angle |-> <<k, m2>>, over |-> delta_t]

\* coefficients[j][0] * laplace_image(z).real
Weighted(node, z) == [weight |-> <<node, 0>>, point |-> z, part |-> "real"]

ExpShiftedNonZero(critical_abscissa) == critical_abscissa # 0
\* if critical_abscissa > 0: exp_arg += critical_abscissa * (j * delta_t)
ExpShifted(critical_abscissa) == critical_abscissa > 0

\* exp_arg = b * j, plus critical_abscissa * (j * delta_t) where that applies
ExpArg(critical_abscissa, delta_t, m2, j) ==
    [b |-> <<44, m2>>, j |-> j,
     shift |-> IF ExpShifted(critical_abscissa)
               THEN <<critical_abscissa, j, delta_t>>
               ELSE <<>>]

\* invert(laplace_image, delta_t, number_of_values, critical_abscissa,
\* quadrature_degree) up to the quadrature loop
IsegerInvert(image, delta_t, number_of_values, critical_abscissa, quadrature_degree) ==
    /\ CanCall
    /\ program = "iseger"
    /\ Enter([NoCall EXCEPT !.op = "iseger", !.image = image, !.delta_t = delta_t,
                            !.number_of_values = number_of_values,
                            !.critical_abscissa = critical_abscissa,
                            !.quadrature_degree = quadrature_degree])
    /\ IF DomainError(delta_t, number_of_values)
       THEN /\ outcome' = Raised("ArithmeticError")
            /\ pc' = "done"
            /\ is' = NoIsLocals
       ELSE IF ~Supported(quadrature_degree)
       THEN /\ outcome' = Raised("ValueError")
            /\ pc' = "done"
            /\ is' = NoIsLocals
       ELSE LET mm == Normalize(number_of_values)
                m2 == 8 * mm
            IN /\ is' = [m |-> number_of_values, number_of_values |-> mm, m2 |-> m2,
                         k |-> 0, j |-> 0, sum |-> <<>>,
                         image_values |-> Repeat(ZeroSample, m2 + 1)]
               /\ outcome' = NoOutcome
               /\ pc' = "is_quadrature"
    /\ UNCHANGED <<program, circuit, exact, tables, threads, fn, objs, kept, self, st>>

\* one iteration of "for j in range(int(quadrature_degree / 2))":
\* sum += coefficients[j][0] * laplace_image(z).real
QuadratureEval ==
    /\ pc = "is_quadrature"
    /\ is.k < is.m2 + 1
    /\ is.j < IntHalf(call.quadrature_degree)
    /\ IF is.j + 1 > Len(SelectTable(call.quadrature_degree))
       THEN /\ outcome' = Raised("IndexError")
            /\ pc' = "done"
            /\ is' = NoIsLocals
            /\ UNCHANGED <<evals, raisedAt>>
       ELSE /\ evals' = evals + 1
            /\ \E raises \in ImageRaises(call.image) :
                 IF raises
                 THEN /\ raisedAt' = evals'
                      /\ outcome' = Raised("ImageError")
                      /\ pc' = "done"
                      /\ is' = NoIsLocals
                 ELSE /\ is' = [is EXCEPT
                            !.sum = Append(@,
                                LET node == SelectTable(call.quadrature_degree)[is.j + 1]
                                IN Weighted(node, Point(call.critical_abscissa, call.delta_t,
                                                        is.m2, node, is.k))),
                            !.j = @ + 1]
                      /\ UNCHANGED <<pc, outcome, raisedAt>>
    /\ UNCHANGED <<program, circuit, exact, tables, fft, threads, fn, call, objs, kept,
                   self, st, stResult, isResult>>

\* image_values[k] = 2.0 * sum / delta_t, and on to the next k
StoreSample ==
    /\ pc = "is_quadrature"
    /\ is.k < is.m2 + 1
    /\ is.j >= IntHalf(call.quadrature_degree)
    /\ is' = [is EXCEPT
           !.image_values[is.k + 1] = Sample(is.k, is.sum),
           !.k = @ + 1,
           !.j = 0,
           !.sum = <<>>]
    /\ UNCHANGED <<program, circuit, exact, tables, fft, threads, fn, pc, call, objs,
                   kept, self, st, evals, raisedAt, outcome, stResult, isResult>>

\* after the loop: image_values[0] = (image_values[0] + image_values[m2]) / 2.0;
\* inverse_fft = numpy.fft.ifft(image_values[:m2]) * (m2 / 2); m4 = int(m2 / 4);
\* result[j] = inverse_fft[j].real * math.exp(exp_arg) / m4 for j in
\* range(number_of_values)
IsegerFinishEarly ==
    /\ pc = "is_quadrature"
    /\ is.k >= is.m2
    /\ LET image_values == [is.image_values EXCEPT
                               ![1] = Mean(is.image_values[1], is.image_values[is.m2 + 1])]
           m4 == is.m2 \div 4
       IN /\ fft' = Append(fft, [input |-> SubSeq(image_values, 1, is.m2),
                                 scale |-> <<is.m2, 2>>, evals |-> evals])
          /\ isResult' = [j \in 1 .. is.number_of_values |->
                            [inverse_fft |-> <<Len(fft'), j - 1>>,
                             exp_arg |-> ExpArg(call.critical_abscissa, call.delta_t,
                                                is.m2, j - 1),
                             m4 |-> m4]]
    /\ outcome' = Returned
    /\ pc' = "done"
    /\ is' = NoIsLocals
    /\ UNCHANGED <<program, circuit, exact, tables, threads, fn, call, objs, kept, self,
                   st, evals, raisedAt, stResult>>
IsegerFinish ==
    /\ pc = "is_quadrature"
    /\ is.k >= is.m2 + 1
    /\ LET image_values == [is.image_values EXCEPT
                               ![1] = Mean(is.image_values[1], is.image_values[is.m2 + 1])]
           m4 == is.m2 \div 4
       IN /\ fft' = Append(fft, [input |-> SubSeq(image_values, 1, is.m2),
                                 scale |-> <<is.m2, 2>>, evals |-> evals])
          /\ isResult' = [j \in 1 .. is.number_of_values |->
                            [inverse_fft |-> <<Len(fft'), j - 1>>,
                             exp_arg |-> ExpArg(call.critical_abscissa, call.delta_t,
                                                is.m2, j - 1),
                             m4 |-> m4]]
    /\ outcome' = Returned
    /\ pc' = "done"
    /\ is' = NoIsLocals
    /\ UNCHANGED <<program, circuit, exact, tables, threads, fn, call, objs, kept, self,
                   st, evals, raisedAt, stResult>>

\* the calls the caller may make: the small input sets, and the call of the
\* module's own demo, invert(image, 0.1, 20) (delta_t counted in tenths)
DemoCall == <<"exponent_image", 1, DemoCount, 0, 16>>
IsegerCalls == (Images \X DeltaTs \X Counts \X Abscissas \X Degrees) \cup {DemoCall}

NextIseger ==
    \/ \E c \in IsegerCalls : IsegerInvert(c[1], c[2], c[3], c[4], c[5])
    \/ QuadratureEval
    \/ StoreSample
    \/ IsegerFinish

Next == NextStehfest \/ NextIseger \/ Continue

Spec == Init /\ [][Next]_vars

(***************************************************************************)
(* functions.py: erfc and its asymptotic expansion.                        *)
(***************************************************************************)
Arguments == -MaxX .. MaxX

\* erfc(x) is called
Erfc(x) ==
    /\ program = "functions"
    /\ fn.pc = "idle"
    /\ fn' = [NoFn EXCEPT !.pc = "erfc", !.x = x]
    /\ UNCHANGED <<program, circuit, exact, tables, fft, threads, pc, call, objs, kept,
                   self, st, is, evals, raisedAt, outcome, stResult, isResult>>

\* the body of erfc: x < 0.0 calls erfc(-x) and returns 2.0 minus its value,
\* x <= 3.5 returns _erfc_of_small_positive(x), else _erfc_asymptotic(x) is
\* entered: sum = 1.0; u = 0.5 / x**2; term = -u; number_of_terms = 5
ErfcBody ==
    /\ fn.pc = "erfc"
    /\ IF fn.x < 0
       THEN fn' = [fn EXCEPT !.x = -fn.x, !.reflected = TRUE]
       ELSE IF fn.x <= SmallLimit
       THEN fn' = [fn EXCEPT !.pc = "done", !.via = "_erfc_of_small_positive"]
       ELSE fn' = [fn EXCEPT !.pc = "_erfc_asymptotic", !.via = "_erfc_asymptotic",
                             !.m = 1, !.sum = <<>>, !.term = 1]
    /\ UNCHANGED <<program, circuit, exact, tables, fft, threads, pc, call, objs, kept,
                   self, st, is, evals, raisedAt, outcome, stResult, isResult>>

\* the body of "for m in range(1, number_of_terms)": sum += term; term *= ...;
\* and the return statement, which stands inside the loop body
AsymptoticIteration ==
    /\ fn.pc = "_erfc_asymptotic"
    /\ fn.m < number_of_terms
    /\ fn' = [fn EXCEPT !.sum = Append(@, fn.term),
                        !.term = @ + 1,
                        !.iterations = @ + 1,
                        !.pc = "done"]
    /\ UNCHANGED <<program, circuit, exact, tables, fft, threads, pc, call, objs, kept,
                   self, st, is, evals, raisedAt, outcome, stResult, isResult>>

\* the caller goes on to the next call
FunctionReturned ==
    /\ fn.pc = "done"
    /\ fn' = NoFn
    /\ UNCHANGED <<program, circuit, exact, tables, fft, threads, pc, call, objs, kept,
                   self, st, is, evals, raisedAt, outcome, stResult, isResult>>

InitFunctions ==
    /\ program = "functions"
    /\ objs = [s \in Slots |-> NoObject]
    /\ Fresh

NextFunctions ==
    \/ \E x \in Arguments : Erfc(x)
    \/ ErfcBody
    \/ AsymptoticIteration
    \/ FunctionReturned

SpecFunctions == InitFunctions /\ [][NextFunctions]_vars

(***************************************************************************)
(* Concurrent callers.  One Stehfest object, built before the threads      *)
(* start, is shared by all of them; each thread makes one call, of         *)
(* Stehfest.invert on the shared object or of iseger.invert, with a pure   *)
(* image, and the steps of the threads interleave.  The locals of a call   *)
(* (x, y, i; sum, image_values, k, j, ...) are those of its thread; the    *)
(* object's coefficient list and the module's tables are the same lists    *)
(* for every thread.                                                       *)
(***************************************************************************)
Shared == 1
SharedOrders == {MaxOrder}
ThreadIsegerCalls == PureImages \X {1} \X {2} \X {0, 1} \X {16}

\* the x a thread's invert adds ln2t to: its own local
XOfInstance(th) ==
    LET xs == {threads[o].st.x : o \in Threads}
    IN CHOOSE x \in xs : \A other \in xs : x >= other
XOfThread(th) == threads[th].st.x

\* sf.invert(image, t) in thread th, up to the loop
ThreadStehfestInvert(th, image, t) ==
    /\ program = "concurrent"
    /\ threads[th].pc = "idle"
    /\ objs[Shared].live
    /\ threads' = [threads EXCEPT ![th] =
          [NoThread EXCEPT
              !.call = [NoCall EXCEPT !.op = "invert", !.slot = Shared,
                                      !.image = image, !.t = t],
              !.outcome = IF DividesByZero(t) THEN Raised("ZeroDivisionError")
                          ELSE NoOutcome,
              !.pc = IF DividesByZero(t) THEN "done" ELSE "st_invert"]]
    /\ UNCHANGED <<program, circuit, exact, tables, fft, fn, pc, call, objs, kept, self,
                   st, is, evals, raisedAt, outcome, stResult, isResult>>

\* one iteration of the loop of invert in thread th
ThreadInvertEval(th) ==
    LET T == threads[th]
    IN /\ T.pc = "st_invert"
       /\ T.st.i < Len(objs[T.call.slot].coefficients)
       /\ LET x == NextAbscissa(XOfThread(th))
          IN threads' = [threads EXCEPT ![th].st =
                [T.st EXCEPT
                    !.x = x,
                    !.i = @ + 1,
                    !.y = Append(@, [coefficient |-> objs[T.call.slot].coefficients[T.st.i + 1],
                                     index |-> T.st.i,
                                     image |-> T.call.image,
                                     x |-> x])],
                                       ![th].evals = @ + 1]
       /\ UNCHANGED <<program, circuit, exact, tables, fft, fn, pc, call, objs, kept,
                      self, st, is, evals, raisedAt, outcome, stResult, isResult>>

\* return ln2t * y in thread th
ThreadInvertReturn(th) ==
    LET T == threads[th]
    IN /\ T.pc = "st_invert"
       /\ T.st.i >= Len(objs[T.call.slot].coefficients)
       /\ threads' = [threads EXCEPT ![th] =
             [T EXCEPT !.stResult = [ln2t |-> T.call.t, y |-> T.st.y],
                       !.outcome = Returned,
                       !.pc = "done",
                       !.st = NoStLocals]]
       /\ UNCHANGED <<program, circuit, exact, tables, fft, fn, pc, call, objs, kept,
                      self, st, is, evals, raisedAt, outcome, stResult, isResult>>

\* iseger.invert(...) in thread th, up to the quadrature loop
ThreadIsegerInvert(th, image, delta_t, number_of_values, critical_abscissa, quadrature_degree) ==
    /\ program = "concurrent"
    /\ threads[th].pc = "idle"
    /\ LET c == [NoCall EXCEPT !.op = "iseger", !.image = image, !.delta_t = delta_t,
                               !.number_of_values = number_of_values,
                               !.critical_abscissa = critical_abscissa,
                               !.quadrature_degree = quadrature_degree]
           mm == Normalize(number_of_values)
           m2 == 8 * mm
       IN threads' = [threads EXCEPT ![th] =
             IF DomainError(delta_t, number_of_values)
             THEN [NoThread EXCEPT !.call = c, !.pc = "done",
                                   !.outcome = Raised("ArithmeticError")]
             ELSE IF ~Supported(quadrature_degree)
             THEN [NoThread EXCEPT !.call = c, !.pc = "done",
                                   !.outcome = Raised("ValueError")]
             ELSE [NoThread EXCEPT
                      !.call = c,
                      !.pc = "is_quadrature",
                      !.is = [m |-> number_of_values, number_of_values |-> mm,
                              m2 |-> m2, k |-> 0, j |-> 0, sum |-> <<>>,
                              image_values |-> Repeat(ZeroSample, m2 + 1)]]]
    /\ UNCHANGED <<program, circuit, exact, tables, fft, fn, pc, call, objs, kept, self,
                   st, is, evals, raisedAt, outcome, stResult, isResult>>

\* one iteration of the inner quadrature loop in thread th
ThreadQuadratureEval(th) ==
    LET T == threads[th]
    IN /\ T.pc = "is_quadrature"
       /\ T.is.k < T.is.m2 + 1
       /\ T.is.j < IntHalf(T.call.quadrature_degree)
       /\ threads' = [threads EXCEPT ![th] =
             IF T.is.j + 1 > Len(SelectTable(T.call.quadrature_degree))
             THEN [T EXCEPT !.outcome = Raised("IndexError"), !.pc = "done",
                            !.is = NoIsLocals]
             ELSE [T EXCEPT
                      !.evals = @ + 1,
                      !.is.sum = Append(@,
                          LET node == SelectTable(T.call.quadrature_degree)[T.is.j + 1]
                          IN Weighted(node, Point(T.call.critical_abscissa, T.call.delta_t,
                                                  T.is.m2, node, T.is.k))),
                      !.is.j = @ + 1]]
       /\ UNCHANGED <<program, circuit, exact, tables, fft, fn, pc, call, objs, kept,
                      self, st, is, evals, raisedAt, outcome, stResult, isResult>>

\* image_values[k] = 2.0 * sum / delta_t in thread th, and on to the next k
ThreadStoreSample(th) ==
    LET T == threads[th]
    IN /\ T.pc = "is_quadrature"
       /\ T.is.k < T.is.m2 + 1
       /\ T.is.j >= IntHalf(T.call.quadrature_degree)
       /\ threads' = [threads EXCEPT ![th].is =
             [T.is EXCEPT
                 !.image_values[T.is.k + 1] = Sample(T.is.k, T.is.sum),
                 !.k = @ + 1,
                 !.j = 0,
                 !.sum = <<>>]]
       /\ UNCHANGED <<program, circuit, exact, tables, fft, fn, pc, call, objs, kept,
                      self, st, is, evals, raisedAt, outcome, stResult, isResult>>

\* the end of iseger.invert in thread th: the average, the inverse FFT, the
\* rescaled result
ThreadIsegerFinish(th) ==
    LET T == threads[th]
    IN /\ T.pc = "is_quadrature"
       /\ T.is.k >= T.is.m2 + 1
       /\ LET image_values == [T.is.image_values EXCEPT
                                  ![1] = Mean(T.is.image_values[1],
                                              T.is.image_values[T.is.m2 + 1])]
              m4 == T.is.m2 \div 4
              calls == Append(T.fft, [input |-> SubSeq(image_values, 1, T.is.m2),
                                      scale |-> <<T.is.m2, 2>>, evals |-> T.evals])
          IN threads' = [threads EXCEPT ![th] =
                [T EXCEPT
                    !.fft = calls,
                    !.isResult = [j \in 1 .. T.is.number_of_values |->
                                    [inverse_fft |-> <<Len(calls), j - 1>>,
                                     exp_arg |-> ExpArg(T.call.critical_abscissa,
                                                        T.call.delta_t, T.is.m2, j - 1),
                                     m4 |-> m4]],
                    !.outcome = Returned,
                    !.pc = "done",
                    !.is = NoIsLocals]]
       /\ UNCHANGED <<program, circuit, exact, tables, fft, fn, pc, call, objs, kept,
                      self, st, is, evals, raisedAt, outcome, stResult, isResult>>

\* before the threads start the caller has built the shared object
InitConcurrent ==
    /\ program = "concurrent"
    /\ \E order \in SharedOrders :
         objs = [s \in Slots |->
                   IF s = Shared
                   THEN [live |-> TRUE, order |-> order,
                         coefficients |-> Coefficients(order)]
                   ELSE NoObject]
    /\ Fresh

NextConcurrent ==
    \E th \in Threads :
        \/ \E image \in PureImages, t \in Times : ThreadStehfestInvert(th, image, t)
        \/ ThreadInvertEval(th)
        \/ ThreadInvertReturn(th)
        \/ \E c \in ThreadIsegerCalls : ThreadIsegerInvert(th, c[1], c[2], c[3], c[4], c[5])
        \/ ThreadQuadratureEval(th)
        \/ ThreadStoreSample(th)
        \/ ThreadIsegerFinish(th)

SpecConcurrent == InitConcurrent /\ [][NextConcurrent]_vars

(***************************************************************************)
(* electro/rc_circuit.py.  Capacity, resistance and p are rationals.       *)
(***************************************************************************)
Components == {Rat(n, 1) : n \in 1 .. MaxRC}
Parameters == {Rat(n, d) : n \in -MaxP .. MaxP, d \in 1 .. MaxRC * MaxRC}

\* circuit = RCCircuit(capacity, resistance): self.T = capacity * resistance
RCCircuitNew(capacity, resistance) ==
    /\ program = "circuit"
    /\ circuit.pc = "idle"
    /\ circuit' = [NoCircuit EXCEPT !.live = TRUE, !.capacity = capacity,
                                    !.resistance = resistance,
                                    !.T = RatMul(capacity, resistance)]
    /\ UNCHANGED <<program, exact, tables, fft, threads, fn, pc, call, objs, kept, self,
                   st, is, evals, raisedAt, outcome, stResult, isResult>>

\* return 1.0 / 1 + p * self.T : the division and the product bind tighter
\* than the sum
transfer_function(p) ==
    /\ program = "circuit"
    /\ circuit.live
    /\ circuit.pc = "idle"
    /\ circuit' = [circuit EXCEPT
                      !.p = p,
                      !.value = RatAdd(RatDiv(One, One), RatMul(p, circuit.T)),
                      !.pc = "done"]
    /\ UNCHANGED <<program, exact, tables, fft, threads, fn, pc, call, objs, kept, self,
                   st, is, evals, raisedAt, outcome, stResult, isResult>>

\* the caller goes on with the circuit it has
CircuitReturned ==
    /\ circuit.pc = "done"
    /\ circuit' = [circuit EXCEPT !.pc = "idle", !.p = One, !.value = One]
    /\ UNCHANGED <<program, exact, tables, fft, threads, fn, pc, call, objs, kept, self,
                   st, is, evals, raisedAt, outcome, stResult, isResult>>

InitCircuit ==
    /\ program = "circuit"
    /\ objs = [s \in Slots |-> NoObject]
    /\ Fresh

NextCircuit ==
    \/ \E capacity \in Components, resistance \in Components :
          RCCircuitNew(capacity, resistance)
    \/ \E p \in Parameters : transfer_function(p)
    \/ CircuitReturned

SpecCircuit == InitCircuit /\ [][NextCircuit]_vars

(***************************************************************************)
(* The Stehfest derivation and the inversion of the unit step's image 1/p  *)
(* in exact arithmetic.  A non-negative integer of any size is the list of *)
(* its digits to the base 10000, lowest first, without leading zeros.      *)
(* Rationals are kept over a common denominator: a coefficient as the      *)
(* integer V_i * (N2 - 1)!, and y, in units of 1 / ln 2, as the difference *)
(* pos - neg of two integers over Lcm(1 .. NV) * (N2 - 1)!.                *)
(***************************************************************************)
RECURSIVE BigOfInt(_)
BigOfInt(n) == IF n = 0 THEN <<>> ELSE <<n % 10000>> \o BigOfInt(n \div 10000)

RECURSIVE BigAddCarry(_, _, _)
BigAddCarry(a, b, carry) ==
    IF a = <<>> /\ b = <<>> THEN BigOfInt(carry)
    ELSE LET x == IF a = <<>> THEN 0 ELSE Head(a)
             y == IF b = <<>> THEN 0 ELSE Head(b)
             v == x + y + carry
         IN <<v % 10000>> \o BigAddCarry(IF a = <<>> THEN a ELSE Tail(a),
                                         IF b = <<>> THEN b ELSE Tail(b),
                                         v \div 10000)
BigAdd(a, b) == BigAddCarry(a, b, 0)

\* a * m for a small m > 0
RECURSIVE BigMulCarry(_, _, _)
BigMulCarry(a, m, carry) ==
    IF a = <<>> THEN BigOfInt(carry)
    ELSE LET v == Head(a) * m + carry
         IN <<v % 10000>> \o BigMulCarry(Tail(a), m, v \div 10000)
BigMul(a, m) == BigMulCarry(a, m, 0)

RECURSIVE Factorial(_)
Factorial(n) == IF n <= 1 THEN 1 ELSE n * Factorial(n - 1)

RECURSIVE Gcd(_, _)
Gcd(a, b) == IF b = 0 THEN a ELSE Gcd(b, a % b)
RECURSIVE LcmUpTo(_)
LcmUpTo(n) == IF n <= 1 THEN 1 ELSE LET l == LcmUpTo(n - 1) IN (l \div Gcd(l, n)) * n

\* the term <<k, N2, i>> times (N2 - 1)!, an integer:
\* k^N2 * ((2k)! / (k! (2k-i-1)! (i+1-k)!)) * ((N2-1)! / ((N2-k)! (k-1)!))
TermDivisors(term) ==
    LET k == term[1]
        N2 == term[2]
        i == term[3]
    IN << <<Factorial(2 * k),
            Factorial(k) * Factorial(2 * k - i - 1) * Factorial(i + 1 - k)>>,
          <<Factorial(N2 - 1), Factorial(N2 - k) * Factorial(k - 1)>> >>
TermScaled(term) ==
    LET d == TermDivisors(term)
    IN (term[1] ^ term[2]) * (d[1][1] \div d[1][2]) * (d[2][1] \div d[2][2])

RECURSIVE SumScaled(_)
SumScaled(terms) ==
    IF terms = <<>> THEN 0 ELSE TermScaled(Head(terms)) + SumScaled(Tail(terms))

\* the coefficient c times (N2 - 1)!
CoefficientScaled(c) == c.sign * SumScaled(c.terms)

ExactOrders == {2, 4, 6, 8, 10, 12}
ExactTimes == {1, 2, 3}

\* the common denominator of y for an order
Denominator(order) == LcmUpTo(2 * IntHalf(order)) * Factorial(IntHalf(order) - 1)

\* sf = Stehfest(order), then sf.invert(lambda p: 1 / p, t)
ExactNew(order, t) ==
    /\ program = "exact"
    /\ exact.pc = "idle"
    /\ exact' = [NoExact EXCEPT !.pc = "derive", !.order = order, !.t = t]
    /\ UNCHANGED <<program, circuit, tables, fft, threads, fn, pc, call, objs, kept,
                   self, st, is, evals, raisedAt, outcome, stResult, isResult>>

\* one index of _initialize: the value of coefficient i
ExactDerive ==
    /\ exact.pc = "derive"
    /\ IF exact.i < 2 * IntHalf(exact.order)
       THEN exact' = [exact EXCEPT
                         !.V = Append(@, CoefficientScaled(
                                            Coefficients(exact.order)[exact.i + 1])),
                         !.i = @ + 1]
       ELSE exact' = [exact EXCEPT !.pc = "invert", !.i = 0]
    /\ UNCHANGED <<program, circuit, tables, fft, threads, fn, pc, call, objs, kept,
                   self, st, is, evals, raisedAt, outcome, stResult, isResult>>

\* one iteration of the loop of invert: x = (i + 1) ln 2 / t, the image gives
\* 1 / x = t / ((i + 1) ln 2), and y += V_i * t / (i + 1) in units of 1 / ln 2
ExactInvert ==
    /\ exact.pc = "invert"
    /\ IF exact.i < Len(exact.V)
       THEN LET v == exact.V[exact.i + 1]
                factor == exact.t * (LcmUpTo(Len(exact.V)) \div (exact.i + 1))
            IN exact' = [exact EXCEPT
                   !.pos = IF v > 0 THEN BigAdd(@, BigMul(BigOfInt(v), factor)) ELSE @,
                   !.neg = IF v < 0 THEN BigAdd(@, BigMul(BigOfInt(-v), factor)) ELSE @,
                   !.i = @ + 1]
       ELSE exact' = [exact EXCEPT !.pc = "done"]
    /\ UNCHANGED <<program, circuit, tables, fft, threads, fn, pc, call, objs, kept,
                   self, st, is, evals, raisedAt, outcome, stResult, isResult>>

\* the caller goes on to the next order and time
ExactReturned ==
    /\ exact.pc = "done"
    /\ exact' = NoExact
    /\ UNCHANGED <<program, circuit, tables, fft, threads, fn, pc, call, objs, kept,
                   self, st, is, evals, raisedAt, outcome, stResult, isResult>>

InitExact ==
    /\ program = "exact"
    /\ objs = [s \in Slots |-> NoObject]
    /\ Fresh

NextExact ==
    \/ \E order \in ExactOrders, t \in ExactTimes : ExactNew(order, t)
    \/ ExactDerive
    \/ ExactInvert
    \/ ExactReturned

SpecExact == InitExact /\ [][NextExact]_vars

(***************************************************************************)
(* functions.py: inerfc(x, n), with its recursion kept as a stack of       *)
(* frames.  A frame is at "match" when its call starts, at "first" while   *)
(* inerfc(x, n - 2) runs and at "second" while inerfc(x, n - 1) runs.      *)
(***************************************************************************)
InerfcOrders == -MaxDepth .. MaxN
InerfcArguments == {0, 10}

BaseOrdersShort == {-1, 0, 1}
\* case -1, case 0, case 1, case 2
BaseOrders == {-1, 0, 1, 2}

Frame(n) == [n |-> n, stage |-> "match"]
Top(stack) == stack[Len(stack)]
Pop(stack) == SubSeq(stack, 1, Len(stack) - 1)

\* inerfc(x, n) is called by the caller
Inerfc(x, n) ==
    /\ program = "inerfc"
    /\ fn.pc = "idle"
    /\ fn' = [NoFn EXCEPT !.pc = "inerfc", !.x = x, !.n = n, !.stack = <<Frame(n)>>]
    /\ UNCHANGED <<program, circuit, exact, tables, fft, threads, pc, call, objs, kept,
                   self, st, is, evals, raisedAt, outcome, stResult, isResult>>

\* match n in the innermost call: a base order returns; any other order
\* calls inerfc(x, n - 2), which fails when the stack is at its limit
InerfcMatch ==
    /\ fn.pc = "inerfc"
    /\ ~fn.returning
    /\ fn.stack # <<>>
    /\ LET top == Top(fn.stack)
       IN IF top.n \in BaseOrders
          THEN fn' = [fn EXCEPT !.stack = Pop(@), !.returning = TRUE,
                                !.bases = @ \cup {top.n}]
          ELSE IF Len(fn.stack) >= MaxDepth
          THEN fn' = [fn EXCEPT !.pc = "done", !.stack = <<>>,
                                !.outcome = Raised("RecursionError")]
          ELSE fn' = [fn EXCEPT !.stack = Append([@ EXCEPT ![Len(@)].stage = "first"],
                                                 Frame(top.n - 2))]
    /\ UNCHANGED <<program, circuit, exact, tables, fft, threads, pc, call, objs, kept,
                   self, st, is, evals, raisedAt, outcome, stResult, isResult>>

\* a call has returned into the frame that made it: after the first call the
\* frame calls inerfc(x, n - 1); after the second it divides by n and returns
InerfcResume ==
    /\ fn.pc = "inerfc"
    /\ fn.returning
    /\ fn.stack # <<>>
    /\ LET top == Top(fn.stack)
       IN IF top.stage = "first"
          THEN fn' = [fn EXCEPT !.stack = Append([@ EXCEPT ![Len(@)].stage = "second"],
                                                 Frame(top.n - 1)),
                                !.returning = FALSE]
          ELSE IF top.n = 0
          THEN fn' = [fn EXCEPT !.pc = "done", !.stack = <<>>,
                                !.outcome = Raised("ZeroDivisionError")]
          ELSE fn' = [fn EXCEPT !.stack = Pop(@), !.divided = @ \cup {top.n}]
    /\ UNCHANGED <<program, circuit, exact, tables, fft, threads, pc, call, objs, kept,
                   self, st, is, evals, raisedAt, outcome, stResult, isResult>>

\* the outermost call has returned to the caller
InerfcReturn ==
    /\ fn.pc = "inerfc"
    /\ fn.returning
    /\ fn.stack = <<>>
    /\ fn' = [fn EXCEPT !.pc = "done", !.returning = FALSE, !.outcome = Returned]
    /\ UNCHANGED <<program, circuit, exact, tables, fft, threads, pc, call, objs, kept,
                   self, st, is, evals, raisedAt, outcome, stResult, isResult>>

InitInerfc ==
    /\ program = "inerfc"
    /\ objs = [s \in Slots |-> NoObject]
    /\ Fresh

InerfcRuns == InerfcMatch \/ InerfcResume \/ InerfcReturn

NextInerfc ==
    \/ \E x \in InerfcArguments, n \in InerfcOrders : Inerfc(x, n)
    \/ InerfcMatch
    \/ InerfcResume
    \/ InerfcReturn
    \/ FunctionReturned

\* a call under way keeps running: the interpreter executes it to its end
SpecInerfc == InitInerfc /\ [][NextInerfc]_vars /\ WF_vars(InerfcRuns)

\* a caller that also reads the coefficients property and assigns to the
\* list it returned
NextAccessor ==
    \/ Next
    \/ \E s \in Slots, i \in 0 .. MaxOrder - 1 : CoefficientsAssign(s, i)

SpecAccessor == Init /\ [][NextAccessor]_vars

(***************************************************************************)
(* Properties.                                                             *)
(***************************************************************************)
PowersOfTwo == {2 ^ e : e \in 0 .. 8}
\* the smallest power of two that is >= n
RoundUpToPowerOfTwo(n) ==
    CHOOSE p \in PowersOfTwo : p >= n /\ \A q \in PowersOfTwo : q >= n => p <= q
\* the smallest power of two that is > n
PowerOfTwoAbove(n) ==
    CHOOSE p \in PowersOfTwo : p > n /\ \A q \in PowersOfTwo : q > n => p <= q

IsegerReturned == pc = "done" /\ call.op = "iseger" /\ outcome = Returned
InvertReturned == pc = "done" /\ call.op = "invert" /\ outcome = Returned

C2_NonPositiveTimeFails ==
    (call.op = "invert" /\ call.t <= 0) =>
        /\ pc = "done"
        /\ outcome.kind = "raise"
        /\ evals = 0

ValidOrder(order) == order > 0 /\ order % 2 = 0

\* C3: constructing a Stehfest inverter with an order that is not a positive
\* even integer fails before any coefficient is computed, and no object with
\* such an order exists.
C3_InvalidOrderRejected ==
    /\ (call.op = "new" /\ ~ValidOrder(call.order)) =>
           (pc = "done" /\ outcome.kind = "raise")
    /\ \A s \in Slots : objs[s].live => ValidOrder(objs[s].order)

\* C4: iseger.invert with delta_t <= 0 or count < 2 ends with ArithmeticError
\* and no evaluation of the image, whatever the other arguments are.
C4_DomainErrorBeforeEvaluation ==
    (call.op = "iseger" /\ (call.delta_t <= 0 \/ call.number_of_values < 2)) =>
        /\ pc = "done"
        /\ outcome = Raised("ArithmeticError")
        /\ evals = 0

C4_Witness ==
    /\ call.op = "iseger"
    /\ call.delta_t = 0
    /\ call.number_of_values = 1
    /\ call.quadrature_degree = 24
    /\ outcome = Raised("ArithmeticError")

\* C5: iseger.invert with valid delta_t and count ends with ValueError and no
\* evaluation of the image when the degree is not 16, 32 or 48, and never
\* with ValueError when it is.
C5_UnsupportedDegreeFails ==
    (call.op = "iseger" /\ call.delta_t > 0 /\ call.number_of_values >= 2) =>
        IF call.quadrature_degree \in {16, 32, 48}
        THEN outcome.error # "ValueError"
        ELSE /\ pc = "done"
             /\ outcome = Raised("ValueError")
             /\ evals = 0

C5_Witness ==
    /\ call.op = "iseger"
    /\ call.delta_t > 0
    /\ call.number_of_values >= 2
    /\ call.quadrature_degree = 24
    /\ outcome = Raised("ValueError")

\* C6: once the image has raised at the n-th evaluation of a call, the call
\* has ended with the image's error, with n evaluations made and no more,
\* and with no value returned.
C6_ImageErrorPropagates ==
    raisedAt > 0 =>
        /\ pc = "done"
        /\ outcome = Raised("ImageError")
        /\ evals = raisedAt
        /\ stResult = NoValue
        /\ isResult = <<>>

C6_Witness ==
    /\ call.op = "iseger"
    /\ raisedAt > 8
    /\ outcome = Raised("ImageError")

SupportedOrders == {6, 8, 10, 12, 14, 16}

\* C8: for every order N in {6, 8, 10, 12, 14, 16} the coefficient sequence of
\* an inverter has exactly 2 * floor(N / 2) entries, an even number, and two
\* constructions with the same order give the same sequence.
C8_CoefficientsLengthAndDeterminism ==
    /\ \A s \in Slots :
          (objs[s].live /\ objs[s].order \in SupportedOrders) =>
              /\ Len(objs[s].coefficients) = 2 * (objs[s].order \div 2)
              /\ Len(objs[s].coefficients) % 2 = 0
    /\ \A s, r \in Slots :
          (objs[s].live /\ objs[r].live /\ objs[s].order = objs[r].order
              /\ objs[s].order \in SupportedOrders) =>
              objs[s].coefficients = objs[r].coefficients
    /\ (pc = "st_initialize" /\ self.i >= self.NV /\ objs[call.slot].live
           /\ objs[call.slot].order = self.order /\ self.order \in SupportedOrders) =>
              self.coefficients = objs[call.slot].coefficients

C8_Witness ==
    /\ pc = "st_initialize"
    /\ self.i >= self.NV
    /\ self.order = 16
    /\ objs[call.slot].live
    /\ objs[call.slot].order = 16
    /\ Len(objs[call.slot].coefficients) = 16

SameAsKept ==
    /\ kept.has
    /\ kept.order = objs[call.slot].order
    /\ kept.image = call.image
    /\ kept.t = call.t

C10_NoValueForNonPositiveOrder ==
    ~(InvertReturned /\ objs[call.slot].order <= 0)

\* C11: after construction the coefficients of a Stehfest object stay the
\* ones _initialize derived for its order, whatever the caller does with the
\* object: invert calls, reads of the coefficients property, assignments to
\* the list the property returned; and a later invert multiplies by exactly
\* those coefficients.
C11_CoefficientsImmutable ==
    /\ \A s \in Slots :
         objs[s].live => objs[s].coefficients = Coefficients(objs[s].order)
    /\ InvertReturned =>
         \A n \in 1 .. Len(stResult.y) :
            stResult.y[n].coefficient = Coefficients(objs[call.slot].order)[n]

\* C12: the three Iseger tables are constants: at every moment of every
\* invert call, successful or failing, they are the lists the module
\* defines, the table of degree d has d/2 entries, every node index the
\* quadrature loop is about to read or has read lies inside the selected
\* table, and no call ends in an IndexError.
C12_TablesConstant ==
    /\ tables = ModuleTables
    /\ \A d \in DOMAIN tables : Len(tables[d]) * 2 = d
    /\ outcome # Raised("IndexError")
    /\ pc = "is_quadrature" =>
         /\ is.j <= Len(SelectTable(call.quadrature_degree))
         /\ is.j < IntHalf(call.quadrature_degree) =>
              is.j + 1 \in DOMAIN SelectTable(call.quadrature_degree)
         /\ \A n \in 1 .. Len(is.sum) :
              is.sum[n].weight = <<tables[call.quadrature_degree][n], 0>>

C12_Witness ==
    /\ IsegerReturned
    /\ call.quadrature_degree = 48
    /\ evals = (8 * Len(isResult) + 1) * Len(tables[48])

\* C15: on valid input iseger.invert evaluates the image once for every
\* pair (k, j), k in [0, m2], j in [0, degree/2), in that order, with
\* m2 = 8 * mm: after k full samples and j nodes of the next it has made
\* k * degree/2 + j evaluations, the terms summed so far for sample k are the
\* real parts at critical_abscissa + (b + i (offset_j + 2 pi k / m2)) / delta_t
\* with b = 44 / m2, each sample stored holds degree/2 of them, and a call
\* that returns has made (m2 + 1) * degree/2 evaluations.
C15_EvaluationsOfIseger ==
    LET half == call.quadrature_degree \div 2
    IN /\ pc = "is_quadrature" =>
            /\ is.m2 = 8 * is.number_of_values
            /\ is.k <= is.m2 + 1
            /\ is.j <= half
            /\ evals = is.k * half + is.j
            /\ Len(is.sum) = is.j
            /\ \A n \in 1 .. Len(is.sum) :
                 is.sum[n] =
                    [weight |-> << <<call.quadrature_degree, n - 1>>, 0 >>,
                     point |-> [shift |-> call.critical_abscissa,
                                b |-> <<44, is.m2>>,
                                offset |-> << <<call.quadrature_degree, n - 1>>, 1 >>,
                                angle |-> <<is.k, is.m2>>,
                                over |-> call.delta_t],
                     part |-> "real"]
            /\ \A n \in 1 .. Len(is.image_values) :
                 is.image_values[n] =
                    IF n <= is.k
                    THEN [kind |-> "sample", k |-> n - 1, nodes |-> half, with |-> 0]
                    ELSE ZeroSample
       /\ IsegerReturned => evals = (8 * Len(isResult) + 1) * half

C15_Witness ==
    /\ IsegerReturned
    /\ call.quadrature_degree = 32
    /\ call.critical_abscissa = -1
    /\ evals = (8 * Len(isResult) + 1) * 16

\* C16: one iseger.invert call performs exactly one inverse FFT, after all
\* its m2 + 1 samples are computed: no FFT has run while the quadrature loop
\* is running or when the call raised, a call that returned has run one, all
\* (m2 + 1) * degree/2 image evaluations of the call were made before it and
\* none after it, and every sample it was given is a completed one.
C16_OneFFTAfterAllSamples ==
    LET half == call.quadrature_degree \div 2
    IN /\ Len(fft) <= 1
       /\ pc = "is_quadrature" => fft = <<>>
       /\ outcome.kind = "raise" => fft = <<>>
       /\ IsegerReturned =>
            /\ Len(fft) = 1
            /\ fft[1].evals = evals
            /\ fft[1].evals = (Len(fft[1].input) + 1) * half
            /\ \A n \in 1 .. Len(fft[1].input) :
                 /\ fft[1].input[n].kind # "zero"
                 /\ fft[1].input[n].nodes = half

C16_Witness ==
    /\ IsegerReturned
    /\ call.number_of_values = MaxCount
    /\ Len(fft) = 1
    /\ fft[1].evals = (8 * Len(isResult) + 1) * 8

\* C17: after the sample loop, sample 0 is replaced by the mean of sample 0
\* and sample m2, the samples 1 .. m2-1 stay as computed, the inverse FFT is
\* given exactly the m2 samples 0 .. m2-1, its output is multiplied by
\* m2 / 2, and the result is read from that output.
C17_AverageThenFFT ==
    IsegerReturned =>
        LET m2 == 8 * Len(isResult)
            half == call.quadrature_degree \div 2
            inverse_fft == fft[Len(fft)]
        IN /\ Len(inverse_fft.input) = m2
           /\ inverse_fft.input[1] =
                 [kind |-> "mean", k |-> 0, nodes |-> half, with |-> m2]
           /\ \A n \in 2 .. m2 :
                 inverse_fft.input[n] =
                    [kind |-> "sample", k |-> n - 1, nodes |-> half, with |-> 0]
           /\ inverse_fft.scale = <<m2, 2>>
           /\ \A j \in 1 .. Len(isResult) :
                 isResult[j].inverse_fft = <<Len(fft), j - 1>>

C17_Witness ==
    /\ IsegerReturned
    /\ call.quadrature_degree = 48
    /\ Len(isResult) = 4
    /\ fft[1].input[1].kind = "mean"
    /\ fft[1].input[1].with = 32

\* C18: result[j] = Re(inverse_fft[j]) * exp(E_j) / m4 for every j in
\* [0, mm), with m4 = m2 / 4 = 2 * mm and E_j = b * j, plus
\* critical_abscissa * j * delta_t only when critical_abscissa > 0, although
\* every quadrature point was shifted by critical_abscissa whatever its sign;
\* every index read lies within the m2 outputs of the inverse FFT.
C18_RescaledResult ==
    /\ pc = "is_quadrature" =>
         \A n \in 1 .. Len(is.sum) : is.sum[n].point.shift = call.critical_abscissa
    /\ IsegerReturned =>
         LET mm == Len(isResult)
             m2 == 8 * mm
         IN \A j \in 0 .. mm - 1 :
              /\ isResult[j + 1].inverse_fft[2] = j
              /\ j < Len(fft[isResult[j + 1].inverse_fft[1]].input)
              /\ isResult[j + 1].m4 = 2 * mm
              /\ isResult[j + 1].m4 * 4 = m2
              /\ isResult[j + 1].exp_arg =
                    [b |-> <<44, m2>>, j |-> j,
                     shift |-> IF call.critical_abscissa > 0
                               THEN <<call.critical_abscissa, j, call.delta_t>>
                               ELSE <<>>]

C18_Witness ==
    /\ IsegerReturned
    /\ call.critical_abscissa = -1
    /\ Len(isResult) = 4
    /\ isResult[4].exp_arg.shift = <<>>
    /\ isResult[4].exp_arg.j = 3

\* C19: for every order N >= 2, with N2 = floor(N / 2), every coefficient
\* of a constructed Stehfest object is non-zero (a non-empty sum of terms
\* with k >= 1, all positive, times a sign), coefficient i is positive
\* exactly when i + N2 is odd, and so the signs alternate with the index.
C19_SignsAlternate ==
    \A s \in Slots :
        (objs[s].live /\ objs[s].order >= 2) =>
            LET N2 == objs[s].order \div 2
                c == objs[s].coefficients
            IN /\ Len(c) = 2 * N2
               /\ \A i \in 0 .. Len(c) - 1 :
                    /\ c[i + 1].terms # <<>>
                    /\ \A n \in 1 .. Len(c[i + 1].terms) : c[i + 1].terms[n][1] >= 1
                    /\ c[i + 1].sign \in {-1, 1}
                    /\ c[i + 1].sign = 1 <=> (i + N2) % 2 = 1
                    /\ i > 0 => c[i + 1].sign = -c[i].sign

C19_Witness ==
    /\ program = "coefficients"
    /\ objs[1].live
    /\ objs[1].order = 6
    /\ objs[1].coefficients[1].sign = 1
    /\ objs[1].coefficients[6].sign = -1

\* C20: for x > 3.5 (and for x < -3.5, through erfc(-x)) the value erfc
\* returns comes from _erfc_asymptotic after its loop has run all its
\* number_of_terms - 1 iterations: that many terms were added to the sum.
C20_AllTermsSummed ==
    (fn.pc = "done" /\ fn.x > SmallLimit) =>
        /\ fn.via = "_erfc_asymptotic"
        /\ fn.iterations = number_of_terms - 1
        /\ Len(fn.sum) = number_of_terms - 1

\* what a call returns when it runs alone: the value of Stehfest.invert
\* for a coefficient list, and the inverse FFT call and the value of
\* iseger.invert for its arguments
AloneStehfest(coefficients, image, t) ==
    [ln2t |-> t,
     y |-> [n \in 1 .. Len(coefficients) |->
              [coefficient |-> coefficients[n], index |-> n - 1, image |-> image,
               x |-> n]]]
AloneSum(c, m2, k, j) ==
    [n \in 1 .. j |->
        LET node == ModuleTables[c.quadrature_degree][n]
        IN Weighted(node, Point(c.critical_abscissa, c.delta_t, m2, node, k))]
AloneSamples(c, m2, k) ==
    [n \in 1 .. m2 + 1 |->
        IF n <= k
        THEN [kind |-> "sample", k |-> n - 1, nodes |-> c.quadrature_degree \div 2,
              with |-> 0]
        ELSE ZeroSample]
AloneFFT(c) ==
    LET m2 == 8 * Normalize(c.number_of_values)
        samples == AloneSamples(c, m2, m2 + 1)
    IN << [input |-> SubSeq([samples EXCEPT ![1] = Mean(samples[1], samples[m2 + 1])],
                            1, m2),
           scale |-> <<m2, 2>>,
           evals |-> (m2 + 1) * (c.quadrature_degree \div 2)] >>
AloneIseger(c) ==
    LET mm == Normalize(c.number_of_values)
    IN [j \in 1 .. mm |->
          [inverse_fft |-> <<1, j - 1>>,
           exp_arg |-> ExpArg(c.critical_abscissa, c.delta_t, 8 * mm, j - 1),
           m4 |-> 2 * mm]]

\* the sequential callers of Spec get these values
AloneIsSequential ==
    /\ InvertReturned =>
         stResult = AloneStehfest(Coefficients(objs[call.slot].order), call.image, call.t)
    /\ pc = "is_quadrature" =>
         /\ is.sum = AloneSum(call, is.m2, is.k, is.j)
         /\ is.image_values = AloneSamples(call, is.m2, is.k)
    /\ IsegerReturned =>
         /\ fft = AloneFFT(call)
         /\ isResult = AloneIseger(call)

\* C13: with a pure image, however the steps of concurrent invert calls on
\* the shared Stehfest object and of concurrent iseger.invert calls
\* interleave, every call is at each of its steps where it would be when
\* running alone, and returns exactly the value it would return alone; the
\* shared coefficient list and the tables stay as they were.
C13_ConcurrentAsAlone ==
    /\ tables = ModuleTables
    /\ objs[Shared].coefficients = Coefficients(objs[Shared].order)
    /\ \A th \in Threads :
         LET T == threads[th]
         IN /\ T.pc = "st_invert" =>
                 /\ T.st.x = T.st.i
                 /\ T.st.y = SubSeq(AloneStehfest(objs[Shared].coefficients,
                                                  T.call.image, T.call.t).y, 1, T.st.i)
            /\ (T.pc = "done" /\ T.call.op = "invert") =>
                 IF DividesByZero(T.call.t)
                 THEN T.outcome = Raised("ZeroDivisionError")
                 ELSE /\ T.outcome = Returned
                      /\ T.stResult = AloneStehfest(Coefficients(objs[Shared].order),
                                                    T.call.image, T.call.t)
            /\ T.pc = "is_quadrature" =>
                 /\ T.is.sum = AloneSum(T.call, T.is.m2, T.is.k, T.is.j)
                 /\ T.is.image_values = AloneSamples(T.call, T.is.m2, T.is.k)
            /\ (T.pc = "done" /\ T.call.op = "iseger") =>
                 /\ T.outcome = Returned
                 /\ T.fft = AloneFFT(T.call)
                 /\ T.isResult = AloneIseger(T.call)

\* two calls are under way at once, each part of the way through its loop:
\* one thread in Stehfest.invert on the shared object, the other in
\* iseger.invert
C13_Witness ==
    /\ threads["a"].pc = "st_invert"
    /\ threads["a"].st.i = 1
    /\ threads["b"].pc = "is_quadrature"
    /\ threads["b"].is.k = 8 * 4
    /\ threads["b"].is.j = 3
    /\ threads["b"].call.critical_abscissa = 1

\* C21: transfer_function(p) returns 1 / (1 + p * T), T being the product
\* capacity * resistance taken at construction, wherever 1 + p * T # 0.
C21_TransferFunction ==
    circuit.pc = "done" =>
        /\ RatEq(circuit.T, RatMul(circuit.capacity, circuit.resistance))
        /\ LET denominator == RatAdd(One, RatMul(circuit.p, circuit.T))
           IN denominator[1] # 0 => RatEq(circuit.value, RatDiv(One, denominator))

\* C22: for every count >= 2 the loop "while mm <= number_of_values" ends
\* with mm a power of two, mm / 2 <= count < mm; the test "mm < number_of_values"
\* after it is false, so the second doubling never runs and the length the
\* call works with is that mm; the result has more than count elements, and
\* result[i] exists for every i in 0 .. count, the indices the demo reads.
C22_LoopBracketsCount ==
    LET count == call.number_of_values
        mm == DoubleWhile(2, count)
    IN /\ pc = "is_quadrature" =>
            /\ count >= 2
            /\ mm \in PowersOfTwo
            /\ mm % 2 = 0
            /\ mm \div 2 <= count
            /\ count < mm
            /\ ~(mm < count)
            /\ is.number_of_values = mm
            /\ is.m = count
       /\ IsegerReturned =>
            /\ Len(isResult) = mm
            /\ Len(isResult) > count
            /\ \A i \in 0 .. count : i + 1 \in DOMAIN isResult

C22_Witness ==
    /\ IsegerReturned
    /\ call.number_of_values = DemoCount
    /\ Len(isResult) = 32
    /\ DemoCount + 1 \in DOMAIN isResult

\* C23: while _initialize of an order N >= 2 runs, the summation range of
\* the index i it is at is non-empty and inside [1, N2], every factorial
\* argument 2k-i-1, N2-k, k-1, i+1-k of every k in it is >= 0, every
\* coefficient already done has received at least one term, and no
\* construction of such an order ends in an error.
C23_SummationRange ==
    /\ (pc = "st_initialize" /\ self.order >= 2) =>
         /\ self.N2 >= 1
         /\ self.NV = 2 * self.N2
         /\ self.i < self.NV =>
              /\ 1 <= Kmin(self.i)
              /\ Kmin(self.i) <= Kmax(self.i, self.N2)
              /\ Kmax(self.i, self.N2) <= self.N2
              /\ \A k \in Kmin(self.i) .. Kmax(self.i, self.N2) :
                   /\ 2 * k - self.i - 1 >= 0
                   /\ self.N2 - k >= 0
                   /\ k - 1 >= 0
                   /\ self.i + 1 - k >= 0
         /\ \A n \in 1 .. self.i : self.coefficients[n].terms # <<>>
    /\ (pc = "done" /\ call.op = "new" /\ call.order >= 2) =>
         /\ outcome = Returned
         /\ objs[call.slot].live
         /\ \A n \in 1 .. 2 * (call.order \div 2) :
              objs[call.slot].coefficients[n].terms # <<>>

C23_Witness ==
    /\ pc = "st_initialize"
    /\ self.order = MaxDemoOrder
    /\ self.i = self.NV - 1
    /\ Kmin(self.i) = self.N2
    /\ Kmax(self.i, self.N2) = self.N2

\* C24: in exact arithmetic, for every even order 2 .. 12 and every t > 0
\* the inversion of 1/p returns ln2t * y = (pos - neg) / (t * denominator) = 1,
\* that is, the sum of V_i / (i + 1) is 1; the integer divisions by which
\* the terms are formed leave no remainder.
C24_UnitStepExact ==
    /\ \A n \in 1 .. Len(exact.V) :
         \A m \in 1 .. Len(Coefficients(exact.order)[n].terms) :
            LET d == TermDivisors(Coefficients(exact.order)[n].terms[m])
            IN d[1][1] % d[1][2] = 0 /\ d[2][1] % d[2][2] = 0
    /\ exact.pc = "done" =>
         /\ Len(exact.V) = exact.order
         /\ exact.pos = BigAdd(exact.neg, BigOfInt(exact.t * Denominator(exact.order)))

C24_Witness ==
    /\ exact.pc = "done"
    /\ exact.order = 12
    /\ exact.t = 3
    /\ Len(exact.V) = 12
    /\ exact.V[12] > 0
    /\ Len(exact.pos) >= 4

\* the shape of the recursion of inerfc(x, n) at every moment: an order
\* -1 .. 2 makes no inerfc call; under an order n >= 3 every call made has an
\* order in [1, n - 1], one or two below its caller's, only the orders 1 and
\* 2 return without recursion, and only orders >= 3 are divided by; no call
\* divides by 0; under an order n <= -2 the orders only fall, no call
\* returns, and the outermost call does not return a value.
InerfcShape ==
    /\ 0 \notin fn.divided
    /\ fn.outcome # Raised("ZeroDivisionError")
    /\ (fn.n >= -1 /\ fn.n <= 2) =>
         /\ Len(fn.stack) <= 1
         /\ fn.divided = {}
         /\ fn.bases \subseteq {fn.n}
    /\ fn.n >= 3 =>
         /\ \A k \in 2 .. Len(fn.stack) :
              /\ fn.stack[k].n >= 1
              /\ fn.stack[k].n <= fn.n - 1
              /\ fn.stack[k].n \in {fn.stack[k - 1].n - 2, fn.stack[k - 1].n - 1}
         /\ fn.bases \subseteq {1, 2}
         /\ fn.divided \subseteq 3 .. fn.n
    /\ fn.n >= -1 => fn.outcome.kind # "raise"
    /\ fn.n <= -2 =>
         /\ \A k \in 1 .. Len(fn.stack) : fn.stack[k].n <= fn.n
         /\ \A k \in 2 .. Len(fn.stack) : fn.stack[k].n < fn.stack[k - 1].n
         /\ fn.bases = {}
         /\ fn.divided = {}
         /\ ~fn.returning
         /\ fn.outcome # Returned

\* C25: inerfc(x, n) terminates for every order n >= -1: a call under way
\* of such an order leads to its return, and the recursion always has the
\* shape above, which also says that an order n <= -2 never reaches a base
\* order.
C25_InerfcTerminates ==
    /\ []InerfcShape
    /\ (fn.pc = "inerfc" /\ fn.n >= -1) ~> (fn.pc = "done" /\ fn.outcome = Returned)

C25_Witness ==
    /\ fn.pc = "done"
    /\ fn.outcome = Returned
    /\ fn.n = MaxN
    /\ fn.bases = {1, 2}
    /\ fn.divided = 3 .. MaxN

====
